---- MODULE Spec2Model ----
(***************************************************************************)
(* Model of the MCQ generator session: the App component's state           *)
(* (src/types.ts) driven by user events and by the completions of the      *)
(* calls GeminiMathService (src/services/geminiService.ts) makes to the    *)
(* external generation capability.                                         *)
(*                                                                         *)
(* A step is one browser task: a user event with the handler it runs, or   *)
(* the continuation of an awaited promise.  State updates made in one task *)
(* are committed together before the next event is dispatched.             *)
(***************************************************************************)
EXTENDS Integers, Sequences, FiniteSets, TLC

\* ---------------------------------------------------------------- bounds
MaxFiles == 1        \* files uploaded in one session
MaxShort == 1        \* a batch may be up to MaxShort records short of 100
MaxExtra == 1        \* ... or up to MaxExtra records over 100
MaxOddBatches == 1   \* accepted batches that are not the nominal batch
MaxInFlight == 2     \* stage invocations the model lets be pending at once

\* ------------------------------------------------------ program constants
TotalParts == 4
QuestionsPerPart == 100

\* ------------------------------------------------------------ option type
None == <<>>
Some(x) == <<x>>
IsSome(o) == o # <<>>
Get(o) == o[1]

\* ------------------------------------------------------------- AppStatus
IDLE == "IDLE"
ANALYZING == "ANALYZING"
READY_TO_GENERATE == "READY_TO_GENERATE"
GENERATING == "GENERATING"
COMPLETED == "COMPLETED"
AppStatus == {IDLE, ANALYZING, READY_TO_GENERATE, GENERATING, COMPLETED}

VARIABLES
    apiKey,             \* process.env.API_KEY is defined
    serviceRef,         \* serviceRef.current holds a GeminiMathService
    status,
    files,
    analysis,           \* None (null) or Some(TextbookAnalysis)
    mcqs,
    currentPartIndex,
    error,              \* None (null) or Some(message)
    isGenerating,
    uploads,            \* file batches being read by handleFileUpload
    calls,              \* pending stage invocations, oldest first
    event,              \* the last step: the handler that ran and how it went
    genOk,              \* history: part-generation calls that succeeded
    received,           \* history: records returned by those calls
    lastFail,           \* history: part index of a failure not yet followed by a success
    odd,                \* history: accepted batches that were not nominal
    partChapters,       \* None or Some(the chapters generatePartMCQs puts in its prompt)
    contentParts,       \* None or Some(the content blocks analyzeTextbook sends)
    csvContent          \* None or Some(the text convertToCSV returns)

session == <<status, files, analysis, mcqs, currentPartIndex, error, isGenerating>>
history == <<genOk, received, lastFail, odd>>
outputs == <<partChapters, contentParts, csvContent>>
vars == <<apiKey, serviceRef, status, files, analysis, mcqs, currentPartIndex,
          error, isGenerating, uploads, calls, event, genOk, received, lastFail, odd,
          partChapters, contentParts, csvContent>>

\* -------------------------------------------------------------- messages
Message(t, n) == [text |-> t, n |-> n]
EmptyMessage == Message("", 0)
ApiKeyMessage == Message("API_KEY is not defined", 0)
AnalyzeFailedMessage == Message("Failed to analyze textbook.", 0)
GenerateFailedMessage(k) == Message("Failed to generate Part", k + 1)
CapabilityMessage == Message("capability call failed or its text did not parse", 0)
PartUndefinedMessage == Message("TypeError: cannot read properties of undefined", 0)

\* err.message || fallback
MessageOr(m, fallback) == IF m.text = "" THEN fallback ELSE m

\* ---------------------------------------------------------------- files
\* a string is the sequence of its pieces; the comma is a piece of its own.
\* reader.readAsDataURL yields "data:<mime>;base64,<payload>", the payload
\* being the base64 text of the file's bytes (empty for an empty file)
DataUrl(mime, payload) == <<"data:", mime, ";base64", ",">> \o payload
FileData(name, type, payload) == [name |-> name, type |-> type, base64 |-> DataUrl(type, payload)]
PickedFiles == {FileData("book.pdf", "application/pdf", <<"JVBERi0">>)}

\* ------------------------------------------- what the capability returns
Chapter(t) == [title |-> t, topics |-> <<t>>]
Part(n, ts) == [name |-> n, chapterTitles |-> ts]
BookChapters == <<Chapter("ch1"), Chapter("ch2"), Chapter("ch3"), Chapter("ch4"), Chapter("ch5")>>
BookParts == <<Part("Part 1", <<"ch2", "ch1">>), Part("Part 2", <<"ch3">>),
               Part("Part 3", <<"ch4">>), Part("Part 4", <<"ch5">>)>>
TextbookAnalysis(cs, ps) == [chapters |-> cs, parts |-> ps, totalTopics |-> Len(cs), summary |-> "s"]
\* the analysis the schema asks for, and answers that parse but break its invariants
ValidAnalysis == TextbookAnalysis(BookChapters, BookParts)
ThreePartAnalysis == TextbookAnalysis(BookChapters, SubSeq(BookParts, 1, 3))
FivePartAnalysis == TextbookAnalysis(BookChapters, BookParts \o <<Part("Part 5", <<"ch5">>)>>)
DanglingAnalysis == TextbookAnalysis(BookChapters,
                        [BookParts EXCEPT ![2] = Part("Part 2", <<"ch3", "ch9">>)])
AnalysisResponses == {ValidAnalysis, ThreePartAnalysis, FivePartAnalysis, DanglingAnalysis}

\* what generateContent or JSON.parse throws; message "" stands for an error
\* without a message
Thrown == {CapabilityMessage, EmptyMessage}

\* kinds of batch: as asked for, or with records that break the schema
BatchKinds == {"ok", "irregular"}
BatchLens == (QuestionsPerPart - MaxShort) .. (QuestionsPerPart + MaxExtra)
NominalBatch == [len |-> QuestionsPerPart, kind |-> "ok"]
BatchShapes == {[len |-> n, kind |-> "ok"] : n \in BatchLens}
                 \cup {[len |-> QuestionsPerPart, kind |-> k] : k \in BatchKinds}

Options == [A |-> "a", B |-> "b", C |-> "c", D |-> "d"]
\* the record at 0-based position i of a raw batch of the given kind for part p;
\* an irregular batch opens with a record on a chapter of no part, one whose
\* answer is not in A..D, one without its question and one that carries an id
\* and a partName of its own
RawRecord(p, kind, i) ==
    LET titles == p.chapterTitles
        bad(n) == kind = "irregular" /\ i = n
        full == [chapterTitle |-> IF bad(0) THEN "ch0" ELSE titles[(i % Len(titles)) + 1],
                 question |-> <<p.name, i>>,
                 options |-> Options,
                 correctAnswer |-> IF bad(1) THEN "E" ELSE "A",
                 topic |-> "t",
                 difficulty |-> "Easy"]
    IN  IF bad(2)
          THEN [f \in DOMAIN full \ {"question"} |-> full[f]]
        ELSE IF bad(3)
          THEN [f \in DOMAIN full \cup {"id", "partName"} |->
                   IF f = "id" THEN <<"part", 0, "q", 0>>
                   ELSE IF f = "partName" THEN "Part 0"
                   ELSE full[f]]
        ELSE full
RawBatch(p, shape) == [j \in 1 .. shape.len |-> RawRecord(p, shape.kind, j - 1)]

\* ------------------------------------------------- GeminiMathService
\* variant: the id leaves the part index out
McqIdNoPart(partIndex, i) == <<"part", 0, "q", i>>

\* `part-${partIndex}-q-${i}`
McqId(partIndex, i) == <<"part", partIndex, "q", i>>

\* variant: the last record of the batch is lost
StampDropLast(rawMcqs, partIndex, partName) ==
    [j \in 1 .. Len(rawMcqs) - 1 |->
        [f \in DOMAIN rawMcqs[j] \cup {"id", "partName"} |->
            IF f = "id" THEN McqId(partIndex, j - 1)
            ELSE IF f = "partName" THEN partName
            ELSE rawMcqs[j][f]]]

\* variant: an id or a partName of the raw record wins over the stamp
StampKeepRawId(rawMcqs, partIndex, partName) ==
    [j \in 1 .. Len(rawMcqs) |->
        [f \in DOMAIN rawMcqs[j] \cup {"id", "partName"} |->
            IF f \in DOMAIN rawMcqs[j] THEN rawMcqs[j][f]
            ELSE IF f = "id" THEN McqId(partIndex, j - 1)
            ELSE partName]]
\* rawMcqs.map((m, i) => ({...m, id: ..., partName: currentPart.name}))
Stamp(rawMcqs, partIndex, partName) ==
    [j \in 1 .. Len(rawMcqs) |->
        [f \in DOMAIN rawMcqs[j] \cup {"id", "partName"} |->
            IF f = "id" THEN McqId(partIndex, j - 1)
            ELSE IF f = "partName" THEN partName
            ELSE rawMcqs[j][f]]]

\* analysis.parts[partIndex] is an element of the array (else it is undefined)
HasPart(a, partIndex) == partIndex + 1 \in DOMAIN a.parts
CurrentPart(a, partIndex) == a.parts[partIndex + 1]

\* getService() throws when the constructor finds no API key
ServiceAvailable == serviceRef \/ apiKey

\* result: "noop", "started" or "threw" for a handler run by a user event,
\* "ok" or "failed" for the code after its await
Event(op, result) == [op |-> op, result |-> result]
Call(kind, a, k) == [kind |-> kind, analysis |-> a, partIndex |-> k]
Remove(s, i) == SubSeq(s, 1, i - 1) \o SubSeq(s, i + 1, Len(s))

\* --------------------------------------------------------------- Init
Init ==
    /\ apiKey \in BOOLEAN
    /\ serviceRef = FALSE
    /\ status = IDLE
    /\ files = <<>>
    /\ analysis = None
    /\ mcqs = <<>>
    /\ currentPartIndex = 0
    /\ error = None
    /\ isGenerating = FALSE
    /\ uploads = <<>>
    /\ calls = <<>>
    /\ event = Event("init", "ok")
    /\ genOk = 0
    /\ received = 0
    /\ lastFail = None
    /\ odd = 0
    /\ partChapters = None
    /\ contentParts = None
    /\ csvContent = None

\* ------------------------------------------------------- what is rendered
UploadViewRendered == status = IDLE
\* variant: the upload view is shown in every status
AnalyzeButtonAnyStatus == Len(files) > 0
\* variant: the button is also shown on the dashboard between two parts
AnalyzeButtonAfterAnalysis == status \in {IDLE, READY_TO_GENERATE} /\ Len(files) > 0
\* variant: the button comes back when the session is Completed
AnalyzeButtonWhenCompleted == status \in {IDLE, COMPLETED} /\ Len(files) > 0
AnalyzeButtonRendered == status = IDLE /\ Len(files) > 0
DashboardRendered == status # IDLE /\ status # ANALYZING
GenerateButtonRendered == DashboardRendered /\ status # COMPLETED
\* variant: the button is never disabled
GenerateButtonAlwaysEnabled == FALSE
GenerateButtonDisabled == isGenerating

\* ------------------------------------------------------------ uploading
RECURSIVE Flatten(_)
Flatten(batches) == IF batches = <<>> THEN <<>> ELSE Head(batches) \o Flatten(Tail(batches))
FilesInHand == Len(files) + Len(Flatten(uploads))

\* the user picks some files; their reads are started
handleFileUpload ==
    /\ UploadViewRendered
    /\ \E n \in 1 .. (MaxFiles - FilesInHand) : \E f \in PickedFiles :
         uploads' = Append(uploads, [j \in 1 .. n |-> f])
    /\ event' = Event("handleFileUpload", "started")
    /\ UNCHANGED <<outputs, apiKey, serviceRef, session, calls, history>>

\* Promise.all(fileDataPromises) resolves: setFiles(prev => [...prev, ...results])
FilesRead ==
    /\ \E i \in DOMAIN uploads :
         /\ files' = files \o uploads[i]
         /\ uploads' = Remove(uploads, i)
    /\ event' = Event("handleFileUpload", "ok")
    /\ UNCHANGED <<outputs, apiKey, serviceRef, status, analysis, mcqs, currentPartIndex,
                   error, isGenerating, calls, history>>

\* ---------------------------------------------------------- startAnalysis
\* variant: the catch block does not go back to Idle
AnalyzeCatchStuck(err) ==
    /\ error' = Some(MessageOr(err, AnalyzeFailedMessage))
    /\ UNCHANGED <<status, files, analysis, mcqs, currentPartIndex, isGenerating, history>>

\* the catch block
AnalyzeCatch(err) ==
    /\ error' = Some(MessageOr(err, AnalyzeFailedMessage))
    /\ status' = IDLE
    /\ UNCHANGED <<files, analysis, mcqs, currentPartIndex, isGenerating, history>>

\* the handler up to its await (or to its return, or through its catch)
startAnalysis ==
    IF Len(files) = 0
      THEN /\ event' = Event("startAnalysis", "noop")
           /\ UNCHANGED <<serviceRef, session, calls, history>>
    ELSE IF ~ServiceAvailable
      THEN \* getService() throws inside the try: the catch runs in the same task
           /\ AnalyzeCatch(ApiKeyMessage)
           /\ event' = Event("startAnalysis", "threw")
           /\ UNCHANGED <<serviceRef, calls>>
    ELSE /\ Len(calls) < MaxInFlight
         /\ status' = ANALYZING
         /\ error' = None
         /\ serviceRef' = TRUE
         /\ calls' = Append(calls, Call("analysis", None, 0))
         /\ event' = Event("startAnalysis", "started")
         /\ UNCHANGED <<files, analysis, mcqs, currentPartIndex, isGenerating, history>>

\* the user goes for the analyze button
ClickAnalyze ==
    /\ IF AnalyzeButtonRendered
         THEN startAnalysis
         ELSE /\ event' = Event("startAnalysis", "noop")
              /\ UNCHANGED <<serviceRef, session, calls, history>>
    /\ UNCHANGED <<outputs, apiKey, uploads>>

\* variant: the result is not stored
AnalysisSucceedsNoStore(i, result) ==
    /\ analysis' = analysis
    /\ status' = READY_TO_GENERATE
    /\ calls' = Remove(calls, i)
    /\ event' = Event("startAnalysis", "ok")
    /\ UNCHANGED <<outputs, apiKey, serviceRef, files, mcqs, currentPartIndex, error,
                   isGenerating, uploads, history>>
\* analyzeTextbook resolves with JSON.parse(response.text)
AnalysisSucceeds(i, result) ==
    /\ analysis' = Some(result)
    /\ status' = READY_TO_GENERATE
    /\ calls' = Remove(calls, i)
    /\ event' = Event("startAnalysis", "ok")
    /\ UNCHANGED <<outputs, apiKey, serviceRef, files, mcqs, currentPartIndex, error,
                   isGenerating, uploads, history>>

\* analyzeTextbook rejects: the capability failed or the text did not parse
AnalysisFails(i, err) ==
    /\ AnalyzeCatch(err)
    /\ calls' = Remove(calls, i)
    /\ event' = Event("startAnalysis", "failed")
    /\ UNCHANGED <<outputs, apiKey, serviceRef, uploads>>

AnalysisSucceeded ==
    \E i \in DOMAIN calls : \E result \in AnalysisResponses :
        calls[i].kind = "analysis" /\ AnalysisSucceeds(i, result)

AnalysisFailed ==
    \E i \in DOMAIN calls : \E err \in Thrown :
        calls[i].kind = "analysis" /\ AnalysisFails(i, err)

\* ------------------------------------------------------- generateNextPart
\* variant: the handler does not raise isGenerating
GenerateBeginNoFlag ==
    /\ isGenerating' = isGenerating
    /\ status' = GENERATING
    /\ error' = None

\* variant: the handler does not clear the error
GenerateBeginKeepError ==
    /\ isGenerating' = TRUE
    /\ status' = GENERATING
    /\ error' = error
\* variant: the handler raises the flag but leaves the status
GenerateBeginNoStatus ==
    /\ isGenerating' = TRUE
    /\ status' = status
    /\ error' = None
\* setIsGenerating(true); setStatus(GENERATING); setError(null)
GenerateBegin ==
    /\ isGenerating' = TRUE
    /\ status' = GENERATING
    /\ error' = None

\* variant: the index is not advanced
GenerateTryKeepIndex(k, newMcqs) ==
    LET nextIndex == k + 1
    IN  /\ mcqs' = mcqs \o newMcqs
        /\ status' = IF nextIndex >= TotalParts THEN COMPLETED ELSE READY_TO_GENERATE
        /\ isGenerating' = FALSE
        /\ UNCHANGED <<files, analysis, error, currentPartIndex>>

\* variant: Completed is entered one part late
GenerateTryLateComplete(k, newMcqs) ==
    LET nextIndex == k + 1
    IN  /\ mcqs' = mcqs \o newMcqs
        /\ currentPartIndex' = nextIndex
        /\ status' = IF nextIndex > TotalParts THEN COMPLETED ELSE READY_TO_GENERATE
        /\ isGenerating' = FALSE
        /\ UNCHANGED <<files, analysis, error>>

\* variant: Completed is entered one part early
GenerateTryEarlyComplete(k, newMcqs) ==
    LET nextIndex == k + 1
    IN  /\ mcqs' = mcqs \o newMcqs
        /\ currentPartIndex' = nextIndex
        /\ status' = IF nextIndex >= TotalParts - 1 THEN COMPLETED ELSE READY_TO_GENERATE
        /\ isGenerating' = FALSE
        /\ UNCHANGED <<files, analysis, error>>
\* variant: the session never becomes Completed
GenerateTryNeverComplete(k, newMcqs) ==
    LET nextIndex == k + 1
    IN  /\ mcqs' = mcqs \o newMcqs
        /\ currentPartIndex' = nextIndex
        /\ status' = READY_TO_GENERATE
        /\ isGenerating' = FALSE
        /\ UNCHANGED <<files, analysis, error>>
\* the try block after the await (and finally), for the call made with part index k
GenerateTry(k, newMcqs) ==
    LET nextIndex == k + 1
    IN  /\ mcqs' = mcqs \o newMcqs
        /\ currentPartIndex' = nextIndex
        /\ status' = IF nextIndex >= TotalParts THEN COMPLETED ELSE READY_TO_GENERATE
        /\ isGenerating' = FALSE
        /\ UNCHANGED <<files, analysis, error>>

\* variant: a failed part is skipped
GenerateCatchSkip(k, err) ==
    /\ error' = Some(MessageOr(err, GenerateFailedMessage(k)))
    /\ status' = READY_TO_GENERATE
    /\ isGenerating' = FALSE
    /\ lastFail' = Some(k)
    /\ currentPartIndex' = k + 1
    /\ UNCHANGED <<files, analysis, mcqs, genOk, received, odd>>

\* variant: a failure discards the questions gathered so far
GenerateCatchDiscard(k, err) ==
    /\ error' = Some(MessageOr(err, GenerateFailedMessage(k)))
    /\ status' = READY_TO_GENERATE
    /\ isGenerating' = FALSE
    /\ lastFail' = Some(k)
    /\ mcqs' = <<>>
    /\ UNCHANGED <<files, analysis, currentPartIndex, genOk, received, odd>>

\* variant: there is no finally block
GenerateCatchNoFinally(k, err) ==
    /\ error' = Some(MessageOr(err, GenerateFailedMessage(k)))
    /\ status' = READY_TO_GENERATE
    /\ lastFail' = Some(k)
    /\ UNCHANGED <<files, analysis, mcqs, currentPartIndex, isGenerating, genOk, received, odd>>
\* the catch and finally blocks, for the call made with part index k
GenerateCatch(k, err) ==
    /\ error' = Some(MessageOr(err, GenerateFailedMessage(k)))
    /\ status' = READY_TO_GENERATE
    /\ isGenerating' = FALSE
    /\ lastFail' = Some(k)
    /\ UNCHANGED <<files, analysis, mcqs, currentPartIndex, genOk, received, odd>>

\* the handler up to its await (or to its return, or through its catch)
generateNextPart ==
    IF ~IsSome(analysis) \/ currentPartIndex >= TotalParts
      THEN /\ event' = Event("generateNextPart", "noop")
           /\ UNCHANGED <<serviceRef, session, calls, history>>
    ELSE IF ~ServiceAvailable
      THEN /\ GenerateCatch(currentPartIndex, ApiKeyMessage)
           /\ event' = Event("generateNextPart", "threw")
           /\ UNCHANGED <<serviceRef, calls>>
    ELSE IF ~HasPart(Get(analysis), currentPartIndex)
      THEN \* generatePartMCQs rejects before it calls the capability: currentPart
           \* is undefined; the catch runs before any other event is dispatched
           /\ GenerateCatch(currentPartIndex, PartUndefinedMessage)
           /\ serviceRef' = TRUE
           /\ event' = Event("generateNextPart", "threw")
           /\ UNCHANGED calls
    ELSE /\ Len(calls) < MaxInFlight
         /\ GenerateBegin
         /\ serviceRef' = TRUE
         /\ calls' = Append(calls, Call("part", analysis, currentPartIndex))
         /\ event' = Event("generateNextPart", "started")
         /\ UNCHANGED <<files, analysis, mcqs, currentPartIndex, history>>

\* the user goes for the generate button
ClickGenerate ==
    /\ IF GenerateButtonRendered /\ ~GenerateButtonDisabled
         THEN generateNextPart
         ELSE /\ event' = Event("generateNextPart", "noop")
              /\ UNCHANGED <<serviceRef, session, calls, history>>
    /\ UNCHANGED <<outputs, apiKey, uploads>>

IsOdd(shape) == shape # NominalBatch

\* generatePartMCQs resolves with the stamped batch; the code after the await
\* uses the part index and the analysis of the render that made the call
PartSucceeds(i, shape) ==
    LET k == calls[i].partIndex
        currentPart == CurrentPart(Get(calls[i].analysis), k)
        newMcqs == Stamp(RawBatch(currentPart, shape), k, currentPart.name)
    IN  /\ IsOdd(shape) => odd < MaxOddBatches
        /\ GenerateTry(k, newMcqs)
        /\ calls' = Remove(calls, i)
        /\ event' = Event("generateNextPart", "ok")
        /\ genOk' = genOk + 1
        /\ received' = received + shape.len
        /\ lastFail' = None
        /\ odd' = IF IsOdd(shape) THEN odd + 1 ELSE odd
        /\ UNCHANGED <<outputs, apiKey, serviceRef, uploads>>

\* generatePartMCQs rejects: the capability failed or the text did not parse
PartFails(i, err) ==
    /\ GenerateCatch(calls[i].partIndex, err)
    /\ calls' = Remove(calls, i)
    /\ event' = Event("generateNextPart", "failed")
    /\ UNCHANGED <<outputs, apiKey, serviceRef, uploads>>

PartSucceeded ==
    \E i \in DOMAIN calls : \E shape \in BatchShapes :
        calls[i].kind = "part" /\ PartSucceeds(i, shape)

PartFailed ==
    \E i \in DOMAIN calls : \E err \in Thrown :
        calls[i].kind = "part" /\ PartFails(i, err)

\* ------------------------------------------------------------------ Next
Next ==
    \/ handleFileUpload
    \/ FilesRead
    \/ ClickAnalyze
    \/ AnalysisSucceeded
    \/ AnalysisFailed
    \/ ClickGenerate
    \/ PartSucceeded
    \/ PartFailed

Spec == Init /\ [][Next]_vars

TypeOK ==
    /\ status \in AppStatus
    /\ currentPartIndex \in 0 .. TotalParts
    /\ isGenerating \in BOOLEAN
    /\ Len(calls) <= MaxInFlight

\* ------------------------------------------------------------ properties
ClickResults == {"noop", "started", "threw"}
\* the step ran the named handler from a user event
Invoked(op) == event'.op = op /\ event'.result \in ClickResults
\* the step ended a call of the named handler in failure
Failed(op) == event'.op = op /\ event'.result \in {"threw", "failed"}
\* the step ended a call of the named handler in success
Succeeded(op) == event' = Event(op, "ok")

\* C1: at most one analysis or part-generation call is in flight at any time
C1_AtMostOneCallInFlight == Len(calls) <= 1
\* a call is in flight and the user has gone for the generate button again
C1_Witness == Len(calls) = 1 /\ status = GENERATING /\ event = Event("generateNextPart", "noop")

\* C2: generateNextPart invoked while Generating issues no call and leaves
\* status, mcqs, currentPartIndex, analysis and error as they were
C2_GenerateWhileGeneratingIsNoop ==
    [][(status = GENERATING /\ Invoked("generateNextPart"))
         => /\ event'.result = "noop"
            /\ UNCHANGED <<status, mcqs, currentPartIndex, analysis, error, calls>>]_vars
C2_Witness ==
    /\ status = GENERATING
    /\ event = Event("generateNextPart", "noop")
    /\ Len(mcqs) > 0

\* C3: startAnalysis invoked with no file, or in a status other than Idle,
\* issues no call and changes no session field
C3_AnalyzeOnlyFromIdleWithFiles ==
    [][(Invoked("startAnalysis") /\ (status # IDLE \/ Len(files) = 0))
         => /\ event'.result = "noop"
            /\ UNCHANGED <<session, calls>>]_vars
C3_Witness ==
    /\ status = ANALYZING
    /\ Len(calls) = 1
    /\ event = Event("startAnalysis", "noop")

\* C4: currentPartIndex is the number of part-generation calls that succeeded
C4_IndexCountsSuccesses == currentPartIndex = genOk
\* two parts are done, a call has failed since and another is in flight
C4_Witness == genOk = 2 /\ IsSome(lastFail) /\ status = GENERATING

\* C5: the ids of the accumulated questions are pairwise distinct
C5_IdsDistinct == Cardinality({mcqs[i].id : i \in DOMAIN mcqs}) = Len(mcqs)
\* three batches are in and the next part has failed
C5_Witness ==
    /\ genOk = 3
    /\ IsSome(lastFail)
    /\ Len(mcqs) > 2 * QuestionsPerPart

\* C6: a generateNextPart call made in ReadyToGenerate with index k < 4 invokes
\* the stage for part k; when it succeeds its batch is appended at the end,
\* the index becomes k + 1 and the status Completed if k + 1 is 4 and
\* ReadyToGenerate otherwise
C6_GenerateAdvances ==
    [][/\ (Invoked("generateNextPart") /\ status = READY_TO_GENERATE
             /\ currentPartIndex < TotalParts)
          => \/ /\ event'.result = "started"
                /\ calls' = Append(calls, Call("part", analysis, currentPartIndex))
             \/ /\ event'.result = "threw"
                /\ lastFail' = Some(currentPartIndex)
       /\ Succeeded("generateNextPart")
          => LET k == currentPartIndex
                 n == received' - received
             IN  /\ \E i \in DOMAIN calls : calls[i] = Call("part", analysis, k)
                 /\ Len(mcqs') = Len(mcqs) + n
                 /\ SubSeq(mcqs', 1, Len(mcqs)) = mcqs
                 /\ \A j \in 1 .. n : mcqs'[Len(mcqs) + j].id = McqId(k, j - 1)
                 /\ currentPartIndex' = k + 1
                 /\ status' = IF k + 1 = TotalParts THEN COMPLETED
                              ELSE READY_TO_GENERATE]_vars
\* the fourth part has just come in
C6_Witness ==
    /\ event = Event("generateNextPart", "ok")
    /\ status = COMPLETED
    /\ currentPartIndex = TotalParts
    /\ Len(mcqs) > 3 * QuestionsPerPart

\* C7: a failed generateNextPart call for part k records the error, returns to
\* ReadyToGenerate and keeps the index at k; until the next success the index
\* stays k and every generation call issued is for part k
C7_RetrySamePart ==
    [][/\ Failed("generateNextPart")
            => /\ IsSome(error')
               /\ status' = READY_TO_GENERATE
               /\ currentPartIndex' = currentPartIndex
               /\ lastFail' = Some(currentPartIndex)
       /\ IsSome(lastFail')
            => /\ currentPartIndex' = Get(lastFail')
               /\ \A i \in DOMAIN calls' :
                    calls'[i].kind = "part" => calls'[i].partIndex = Get(lastFail')]_vars
\* part 2 has failed and is being generated again
C7_Witness ==
    /\ lastFail = Some(2)
    /\ status = GENERATING
    /\ \E i \in DOMAIN calls : calls[i].partIndex = 2

\* C8: a failed generateNextPart call leaves the accumulated questions and the
\* analysis as they were; a failed startAnalysis call leaves the files, the
\* analysis and the accumulated questions as they were
C8_FailureKeepsData ==
    [][/\ Failed("generateNextPart") => mcqs' = mcqs /\ analysis' = analysis
       /\ Failed("startAnalysis")
            => files' = files /\ analysis' = analysis /\ mcqs' = mcqs]_vars
\* a part has failed with questions of earlier parts in hand
C8_Witness ==
    /\ event = Event("generateNextPart", "failed")
    /\ Len(mcqs) > 0
    /\ IsSome(analysis)

\* C9: a startAnalysis call that reaches the capability puts the session in
\* Analyzing; on success the returned analysis is stored and the session is in
\* ReadyToGenerate with index 0; on failure the error is recorded and the
\* session is in Idle with its files, where startAnalysis is offered again
C9_AnalysisTransitions ==
    [][/\ (Invoked("startAnalysis") /\ status = IDLE /\ Len(files) > 0)
          => \/ /\ event'.result = "started"
                /\ status' = ANALYZING
                /\ calls' = Append(calls, Call("analysis", None, 0))
             \/ /\ event'.result = "threw"
                /\ ~apiKey
       /\ Succeeded("startAnalysis")
          => /\ status = ANALYZING
             /\ IsSome(analysis') /\ Get(analysis') \in AnalysisResponses
             /\ status' = READY_TO_GENERATE
             /\ currentPartIndex' = 0
       /\ Failed("startAnalysis")
          => /\ IsSome(error')
             /\ status' = IDLE
             /\ files' = files
             /\ AnalyzeButtonRendered']_vars
\* the analysis has failed and the analyze button is back
C9_Witness ==
    /\ event = Event("startAnalysis", "failed")
    /\ status = IDLE
    /\ IsSome(error)
    /\ AnalyzeButtonRendered

\* C10: the accumulated sequence holds as many questions as the successful
\* calls returned (100 times their number when every batch was the nominal
\* one); a short batch is accepted and counted as received
C10_CountMatchesReceived ==
    /\ Len(mcqs) = received
    /\ odd = 0 => Len(mcqs) = QuestionsPerPart * genOk
\* a batch short of 100 has been accepted among others
C10_Witness ==
    /\ genOk >= 2
    /\ Len(mcqs) > QuestionsPerPart
    /\ Len(mcqs) < QuestionsPerPart * genOk

Range(seq) == {seq[i] : i \in DOMAIN seq}

\* the schema invariants of an analysis: exactly 4 parts, and every chapter
\* title a part lists is the title of one of the chapters
AnalysisWellFormed(a) ==
    /\ Len(a.parts) = TotalParts
    /\ \A p \in DOMAIN a.parts :
         Range(a.parts[p].chapterTitles) \subseteq {a.chapters[c].title : c \in DOMAIN a.chapters}

\* C11: an analysis response that breaks the schema invariants makes the
\* analysis fail: it is never stored and the session does not get past
\* Analyzing with it
C11_MalformedAnalysisRejected ==
    /\ IsSome(analysis) => AnalysisWellFormed(Get(analysis))
    /\ status \in {READY_TO_GENERATE, GENERATING, COMPLETED}
         => IsSome(analysis) /\ AnalysisWellFormed(Get(analysis))

RequiredFields == {"chapterTitle", "question", "options", "correctAnswer", "topic", "difficulty"}
Answers == {"A", "B", "C", "D"}
RecordWellFormed(m) ==
    /\ RequiredFields \subseteq DOMAIN m
    /\ m.correctAnswer \in Answers

\* C12: a batch with a record that lacks a required field or whose answer is
\* not one of A..D makes the call fail: no such record is ever accumulated
C12_MalformedBatchRejected == \A i \in DOMAIN mcqs : RecordWellFormed(mcqs[i])

\* C13: every accumulated question that carries the name of part p is on a
\* chapter that the stored analysis lists for p
C13_ChapterWithinPart ==
    IsSome(analysis) =>
        \A i \in DOMAIN mcqs : \A p \in DOMAIN Get(analysis).parts :
            mcqs[i].partName = Get(analysis).parts[p].name
                => mcqs[i].chapterTitle \in Range(Get(analysis).parts[p].chapterTitles)

\* C14: once an analysis is stored it never changes, no analysis call is issued
\* or pending from then on, and every pending part-generation call was made
\* with the stored analysis
C14_AnalysisCreatedOnce ==
    [][IsSome(analysis)
         => /\ analysis' = analysis
            /\ event' # Event("startAnalysis", "started")
            /\ \A i \in DOMAIN calls' :
                 calls'[i].kind = "part" /\ calls'[i].analysis = analysis]_vars
\* the user has gone for the analyze button while a part call, made after one
\* part was done, is in flight
C14_Witness ==
    /\ IsSome(analysis)
    /\ genOk >= 1
    /\ Len(calls) = 1
    /\ calls[1].kind = "part"
    /\ event = Event("startAnalysis", "noop")

\* C15: with a four-part analysis, once four part-generation calls have
\* succeeded with 100 records each the session is Completed with 400 questions
\* and currentPartIndex = 4, whatever failures came in between; and the session
\* is never Completed after fewer than four successes
C15_CompletedAfterFourParts ==
    /\ ( /\ IsSome(analysis)
         /\ Len(Get(analysis).parts) = TotalParts
         /\ genOk = TotalParts
         /\ odd = 0 )
         => /\ status = COMPLETED
            /\ Len(mcqs) = TotalParts * QuestionsPerPart
            /\ currentPartIndex = TotalParts
    /\ status = COMPLETED => genOk >= TotalParts
\* the fourth batch of 100 has just been appended
C15_Witness ==
    /\ status = COMPLETED
    /\ Get(analysis) = ValidAnalysis
    /\ odd = 0
    /\ Len(mcqs) = TotalParts * QuestionsPerPart
    /\ event = Event("generateNextPart", "ok")

\* the records a step has appended to mcqs
Appended == SubSeq(mcqs', Len(mcqs) + 1, Len(mcqs'))

\* C18: the batch appended for part k has the length and the order of the raw
\* batch; its record at position i has the id "part-k-q-i" and the name of part
\* k, whatever id or partName the raw record had, and every other field of the
\* raw record, no more and no fewer, with its value unchanged
C18_StampingOnly ==
    [][Succeeded("generateNextPart") =>
         LET k == currentPartIndex
             part == Get(analysis).parts[k + 1]
         IN  \E shape \in BatchShapes :
                LET raw == RawBatch(part, shape)
                IN  /\ Len(Appended) = Len(raw)
                    /\ \A j \in DOMAIN raw :
                         /\ Appended[j].id = <<"part", k, "q", j - 1>>
                         /\ Appended[j].partName = part.name
                         /\ DOMAIN Appended[j] = DOMAIN raw[j] \cup {"id", "partName"}
                         /\ \A f \in DOMAIN raw[j] \ {"id", "partName"} :
                              Appended[j][f] = raw[j][f]]_vars
\* the batch just appended for the second part or a later one was the irregular
\* one: its third record has no question, its fourth came with an id of its own
C18_Witness ==
    /\ event = Event("generateNextPart", "ok")
    /\ currentPartIndex >= 2
    /\ Len(mcqs) >= QuestionsPerPart
    /\ "question" \notin DOMAIN mcqs[Len(mcqs) - QuestionsPerPart + 3]
    /\ mcqs[Len(mcqs) - QuestionsPerPart + 4].id = <<"part", currentPartIndex - 1, "q", 3>>

StageOps == {"startAnalysis", "generateNextPart"}

\* C20: a stage call that starts clears the error, a stage call that fails
\* stores a message that is not empty, a stage call that succeeds leaves the
\* error null, and no other step touches it; so the error is set exactly when
\* the last stage call to end failed and none has started since
C20_ErrorTracksLastCall ==
    [][ /\ (event'.op \in StageOps /\ event'.result = "started") => error' = None
        /\ (\E op \in StageOps : Failed(op))
             => IsSome(error') /\ Get(error').text # "" /\ Len(calls') = 0
        /\ (\E op \in StageOps : Succeeded(op)) => error' = None
        /\ (event'.op \notin StageOps \/ event'.result = "noop") => error' = error ]_vars
\* a part call has failed, the error was shown, and the next call has started
C20_Witness ==
    /\ IsSome(lastFail)
    /\ error = None
    /\ status = GENERATING
    /\ event = Event("generateNextPart", "started")

\* ----------------------------------- generatePartMCQs: the chapters of a part
MaxChapters == 3     \* chapters of an analysis given to generatePartMCQs
MaxTitles == 2       \* chapter titles a part lists

\* the sequences over S of length n at most
SeqsUpTo(S, n) == UNION {[1 .. m -> S] : m \in 0 .. n}

\* titles of the chapters of an analysis, and titles a part may list: "ch9" is
\* the title of no chapter
TitlesOfChapters == {"ch1", "ch2", "ch3"}
TitlesListed == {"ch1", "ch2", "ch9"}
\* an analysis as the capability may return it: chapters in any order, a title
\* may occur twice; the part of index k lists any titles, the others list ch3
AnalysisInput(ts, ls, k) ==
    TextbookAnalysis([i \in DOMAIN ts |-> Chapter(ts[i])],
                     [p \in 1 .. TotalParts |->
                         IF p = k + 1 THEN Part("Part k", ls) ELSE Part("Part", <<"ch3">>)])

\* variant: the chapters come in the order in which the part lists their titles
PartChaptersInPartOrder(a, partIndex) ==
    LET titles == CurrentPart(a, partIndex).chapterTitles
    IN  Flatten([i \in DOMAIN titles |->
                    SelectSeq(a.chapters, LAMBDA ch : ch.title = titles[i])])

\* analysis.chapters.filter(ch => currentPart.chapterTitles.includes(ch.title))
PartChapters(a, partIndex) ==
    SelectSeq(a.chapters,
              LAMBDA ch : ch.title \in Range(CurrentPart(a, partIndex).chapterTitles))

\* generatePartMCQs has been called with an analysis and the index of one of
\* its parts; the arguments are those of the pending call
InitChapters ==
    /\ \E ts \in SeqsUpTo(TitlesOfChapters, MaxChapters) :
       \E ls \in SeqsUpTo(TitlesListed, MaxTitles) :
       \E k \in 0 .. 1 :
         LET a == AnalysisInput(ts, ls, k)
             done == Stamp(RawBatch(a.parts[1], NominalBatch), 0, a.parts[1].name)
         IN  /\ analysis = Some(a)
             /\ currentPartIndex = k
             /\ calls = <<Call("part", Some(a), k)>>
             /\ mcqs = IF k = 0 THEN <<>> ELSE done
             /\ genOk = k
             /\ received = Len(mcqs)
    /\ apiKey = TRUE
    /\ serviceRef = TRUE
    /\ status = GENERATING
    /\ isGenerating = TRUE
    /\ files \in [1 .. 1 -> PickedFiles]
    /\ error = None
    /\ uploads = <<>>
    /\ event = Event("generateNextPart", "started")
    /\ lastFail = None
    /\ odd = 0
    /\ partChapters = None
    /\ contentParts = None
    /\ csvContent = None

\* the method resolves the chapters it puts in its prompt
ResolveChapters ==
    /\ partChapters = None
    /\ partChapters' = Some(PartChapters(Get(calls[1].analysis), calls[1].partIndex))
    /\ UNCHANGED <<apiKey, serviceRef, session, uploads, calls, event, history,
                   contentParts, csvContent>>

NextChapters == ResolveChapters

SpecChapters == InitChapters /\ [][NextChapters]_vars

\* the positions of the chapters of analysis a that part k lists
ListedPositions(a, k) ==
    {i \in DOMAIN a.chapters : \E j \in DOMAIN a.parts[k + 1].chapterTitles :
        a.parts[k + 1].chapterTitles[j] = a.chapters[i].title}

\* C19: the chapters resolved for part k are the chapters of the analysis whose
\* title the part lists, each once, in the order of analysis.chapters; no other
\* chapter is among them, and a listed title that no chapter has adds nothing
\* (the result is still a list)
C19_ChapterSubset ==
    IsSome(partChapters) =>
        LET a == Get(calls[1].analysis)
            k == calls[1].partIndex
            pos == ListedPositions(a, k)
            nth(j) == CHOOSE i \in pos : Cardinality({h \in pos : h < i}) = j - 1
            chosen == Get(partChapters)
        IN  /\ DOMAIN chosen = 1 .. Cardinality(pos)
            /\ \A j \in DOMAIN chosen : chosen[j] = a.chapters[nth(j)]
\* the part lists ch9, which no chapter has, before ch1; the analysis has ch1
\* after another chapter; ch1 alone is resolved
C19_Witness ==
    /\ IsSome(partChapters)
    /\ calls[1].partIndex = 1
    /\ Get(calls[1].analysis).parts[2].chapterTitles = <<"ch9", "ch1">>
    /\ Len(Get(calls[1].analysis).chapters) = 3
    /\ Get(calls[1].analysis).chapters[2].title = "ch1"
    /\ Get(partChapters) = <<Chapter("ch1")>>

\* ------------------------------------- analyzeTextbook: the content blocks
MaxBlocks == 2       \* files given to analyzeTextbook
MaxPayload == 1      \* pieces of a file's base64 text

MimeTypes == {"application/pdf", "image/png"}
Base64Pieces == {"JVBERi0", "iVBORw0"}
\* files as handleFileUpload stores them (a data URL, its payload empty for an
\* empty file), and files whose base64 field is the bare payload
UploadedFiles ==
    {FileData("f", t, p) : t \in MimeTypes, p \in SeqsUpTo(Base64Pieces, MaxPayload)}
BareFiles ==
    {[name |-> "f", type |-> t, base64 |-> p] :
        t \in MimeTypes, p \in SeqsUpTo(Base64Pieces, MaxPayload) \ {<<>>}}
FileInputs == UploadedFiles \cup BareFiles

RECURSIVE Split(_, _)
\* s.split(sep)
Split(s, sep) ==
    IF \A i \in DOMAIN s : s[i] # sep
      THEN <<s>>
      ELSE LET i == CHOOSE h \in DOMAIN s : s[h] = sep /\ \A g \in 1 .. h - 1 : s[g] # sep
           IN  <<SubSeq(s, 1, i - 1)>> \o Split(SubSeq(s, i + 1, Len(s)), sep)

\* file.base64.split(',')[1] || file.base64
InlineData(file) ==
    LET pieces == Split(file.base64, ",")
    IN  [mimeType |-> file.type,
         data |-> IF Len(pieces) >= 2 /\ pieces[2] # <<>> THEN pieces[2] ELSE file.base64]

\* files.map(file => ({inlineData: {...}}))
ContentParts(fs) == [i \in DOMAIN fs |-> [inlineData |-> InlineData(fs[i])]]

\* analyzeTextbook has been called with the files of the session
InitExtract ==
    /\ files \in UNION {[1 .. n -> FileInputs] : n \in 1 .. MaxBlocks}
    /\ apiKey = TRUE
    /\ serviceRef = TRUE
    /\ status = ANALYZING
    /\ analysis = None
    /\ mcqs = <<>>
    /\ currentPartIndex = 0
    /\ error = None
    /\ isGenerating = FALSE
    /\ uploads = <<>>
    /\ calls = <<Call("analysis", None, 0)>>
    /\ event = Event("startAnalysis", "started")
    /\ genOk = 0
    /\ received = 0
    /\ lastFail = None
    /\ odd = 0
    /\ partChapters = None
    /\ contentParts = None
    /\ csvContent = None

\* the method builds the content blocks of its request
ExtractContent ==
    /\ contentParts = None
    /\ contentParts' = Some(ContentParts(files))
    /\ UNCHANGED <<apiKey, serviceRef, session, uploads, calls, event, history,
                   partChapters, csvContent>>

NextExtract == ExtractContent

SpecExtract == InitExtract /\ [][NextExtract]_vars

\* the text has a data-URI header: it opens with "data:" and has a comma
HasPrefix(s) == Len(s) > 0 /\ s[1] = "data:" /\ \E i \in DOMAIN s : s[i] = ","
\* the text after the first comma
AfterHeader(s) ==
    LET i == CHOOSE h \in DOMAIN s : s[h] = "," /\ \A g \in 1 .. h - 1 : s[g] # ","
    IN  SubSeq(s, i + 1, Len(s))

\* C17: there is one content block per file, in the order of the files; the
\* block has the file's MIME type and, as its payload, the file's text without
\* its data-URI header when it has one, the file's text as it is otherwise
C17_PrefixStripped ==
    IsSome(contentParts) =>
        LET blocks == Get(contentParts)
        IN  /\ Len(blocks) = Len(files)
            /\ \A i \in DOMAIN files :
                 /\ blocks[i].inlineData.mimeType = files[i].type
                 /\ blocks[i].inlineData.data =
                      IF HasPrefix(files[i].base64)
                        THEN AfterHeader(files[i].base64)
                        ELSE files[i].base64

\* ------------------------------------------------ convertToCSV, downloadCSV
MaxText == 1         \* pieces of a text of a question record
MaxRows == 2         \* questions accumulated when the CSV is exported

COMMA == ","
QUOTE == "\""
NEWLINE == "\n"
\* the pieces a text is made of: a run of plain characters, or one of the
\* characters that matter to the CSV format
Pieces == {"x", COMMA, QUOTE, NEWLINE}
Texts == SeqsUpTo(Pieces, MaxText)

\* a question record as generatePartMCQs returns it, texts spelled out
McqRecord(k, i, title, question, optionA) ==
    [id |-> McqId(k, i),
     partName |-> <<"Part 1">>,
     chapterTitle |-> title,
     question |-> question,
     options |-> [A |-> optionA, B |-> <<"b">>, C |-> <<"c">>, D |-> <<"d">>],
     correctAnswer |-> <<"A">>,
     topic |-> <<"t">>,
     difficulty |-> <<"Easy">>]
PlainRecord(i) == McqRecord(0, i, <<"ch1">>, <<"q">>, <<"a">>)

headers == <<"Part", "Chapter", "Question", "Option A", "Option B", "Option C",
             "Option D", "Correct Answer">>

RECURSIVE Join(_, _)
\* array.join(sep), for an array of texts
Join(texts, sep) ==
    IF texts = <<>> THEN <<>>
    ELSE IF Len(texts) = 1 THEN texts[1]
    ELSE texts[1] \o <<sep>> \o Join(Tail(texts), sep)

RECURSIVE DoubleQuotes(_)
\* text.replace(/"/g, '""')
DoubleQuotes(text) ==
    IF text = <<>> THEN <<>>
    ELSE (IF Head(text) = QUOTE THEN <<QUOTE, QUOTE>> ELSE <<Head(text)>>)
            \o DoubleQuotes(Tail(text))

\* `"${text.replace(/"/g, '""')}"`
Quoted(text) == <<QUOTE>> \o DoubleQuotes(text) \o <<QUOTE>>

\* the row of one question
Row(q) ==
    <<q.partName, q.chapterTitle, Quoted(q.question), Quoted(q.options.A),
      Quoted(q.options.B), Quoted(q.options.C), Quoted(q.options.D), q.correctAnswer>>

\* [headers.join(","), ...rows.map(r => r.join(","))].join("\n")
convertToCSV(questions) ==
    Join(<<Join([h \in DOMAIN headers |-> <<headers[h]>>], COMMA)>>
            \o [i \in DOMAIN questions |-> Join(Row(questions[i]), COMMA)],
         NEWLINE)

\* mcqs.filter((_, i) => Math.floor(i / 100) === index), or mcqs without an index
QuestionsToExport(index) ==
    IF IsSome(index)
      THEN LET kept == {i \in DOMAIN mcqs : (i - 1) \div QuestionsPerPart = Get(index)}
               nth(j) == CHOOSE i \in kept : Cardinality({h \in kept : h < i}) = j - 1
           IN  [j \in 1 .. Cardinality(kept) |-> mcqs[nth(j)]]
      ELSE mcqs

\* the first part has come back as a short batch: one record with any texts
\* among plain ones
InitCSV ==
    /\ \E n \in 1 .. MaxRows : \E p \in 1 .. n :
       \E title \in Texts : \E question \in Texts : \E optionA \in Texts :
         mcqs = [i \in 1 .. n |->
                    IF i = p THEN McqRecord(0, i - 1, title, question, optionA)
                    ELSE PlainRecord(i - 1)]
    /\ apiKey = TRUE
    /\ serviceRef = TRUE
    /\ status = READY_TO_GENERATE
    /\ files \in [1 .. 1 -> PickedFiles]
    /\ analysis = Some(ValidAnalysis)
    /\ currentPartIndex = 1
    /\ error = None
    /\ isGenerating = FALSE
    /\ uploads = <<>>
    /\ calls = <<>>
    /\ event = Event("generateNextPart", "ok")
    /\ genOk = 1
    /\ received = Len(mcqs)
    /\ lastFail = None
    /\ odd = 1
    /\ partChapters = None
    /\ contentParts = None
    /\ csvContent = None

\* the user downloads all parts, or one part
downloadCSV ==
    /\ csvContent = None
    /\ \E index \in {None, Some(0)} :
         LET questionsToExport == QuestionsToExport(index)
         IN  /\ Len(questionsToExport) # 0
             /\ csvContent' = Some(convertToCSV(questionsToExport))
    /\ event' = Event("downloadCSV", "ok")
    /\ UNCHANGED <<apiKey, serviceRef, session, uploads, calls, history,
                   partChapters, contentParts>>

NextCSV == downloadCSV

SpecCSV == InitCSV /\ [][NextCSV]_vars

RECURSIVE ParseFrom(_, _, _, _, _, _)
\* reading CSV text s from position i on: field is the text of the field being
\* read, quoted says the position is inside a quoted field, record holds the
\* fields read of the current record, records the records read
ParseFrom(s, i, quoted, field, record, records) ==
    IF i > Len(s) THEN Append(records, Append(record, field))
    ELSE IF quoted
      THEN IF s[i] # QUOTE
             THEN ParseFrom(s, i + 1, TRUE, Append(field, s[i]), record, records)
           ELSE IF i < Len(s) /\ s[i + 1] = QUOTE
             THEN ParseFrom(s, i + 2, TRUE, Append(field, QUOTE), record, records)
           ELSE ParseFrom(s, i + 1, FALSE, field, record, records)
    ELSE IF s[i] = QUOTE /\ field = <<>>
      THEN ParseFrom(s, i + 1, TRUE, field, record, records)
    ELSE IF s[i] = COMMA
      THEN ParseFrom(s, i + 1, FALSE, <<>>, Append(record, field), records)
    ELSE IF s[i] = NEWLINE
      THEN ParseFrom(s, i + 1, FALSE, <<>>, <<>>, Append(records, Append(record, field)))
    ELSE ParseFrom(s, i + 1, FALSE, Append(field, s[i]), record, records)

\* the records of a CSV text: fields separated by commas, records by line
\* breaks, a field in double quotes may hold commas, line breaks and doubled
\* double quotes
ParseCSV(s) == ParseFrom(s, 1, FALSE, <<>>, <<>>, <<>>)

\* C16: parsing the exported CSV gives the header row and then one record per
\* question, in the order of mcqs, whose third to eighth fields are the
\* question, the four options and the correct answer of that question
C16_CsvRoundTrip ==
    IsSome(csvContent) =>
        LET records == ParseCSV(Get(csvContent))
        IN  /\ Len(records) = Len(mcqs) + 1
            /\ records[1] = [h \in DOMAIN headers |-> <<headers[h]>>]
            /\ \A i \in DOMAIN mcqs :
                 /\ Len(records[i + 1]) = Len(headers)
                 /\ records[i + 1][3] = mcqs[i].question
                 /\ records[i + 1][4] = mcqs[i].options.A
                 /\ records[i + 1][5] = mcqs[i].options.B
                 /\ records[i + 1][6] = mcqs[i].options.C
                 /\ records[i + 1][7] = mcqs[i].options.D
                 /\ records[i + 1][8] = mcqs[i].correctAnswer

\* ------------------------------------------------------------- progress
\* the promise of a pending call settles, and the call leaves the pending ones;
\* the steps that do so are AnalysisSucceeded, AnalysisFailed, PartSucceeded and
\* PartFailed
CallSettles == \E i \in DOMAIN calls : calls' = Remove(calls, i)

\* every call that was issued completes or fails in the end
FairSpec == Spec /\ WF_calls(CallSettles)

\* C21: when every issued call settles in the end, the session is never
\* Analyzing for ever, nor Generating or with isGenerating set for ever; the
\* step that leaves Analyzing goes to Idle or ReadyToGenerate and the step that
\* leaves Generating goes to ReadyToGenerate or Completed
C21_StagesEnd ==
    /\ []<>(status # ANALYZING)
    /\ []<>(status # GENERATING /\ ~isGenerating)
    /\ [][ /\ status = ANALYZING => status' \in {ANALYZING, IDLE, READY_TO_GENERATE}
           /\ status = GENERATING
                => status' \in {GENERATING, READY_TO_GENERATE, COMPLETED} ]_vars
\* a part call has failed and the session is back, ready for the retry
C21_Witness ==
    /\ event = Event("generateNextPart", "failed")
    /\ status = READY_TO_GENERATE
    /\ ~isGenerating
    /\ genOk >= 1

\* C22: currentPartIndex is within 0..4, and the session is Completed exactly
\* when currentPartIndex is 4
C22_IndexRangeAndCompleted ==
    /\ currentPartIndex \in 0 .. TotalParts
    /\ status = COMPLETED <=> currentPartIndex = TotalParts
\* the fourth part has just come back, after an earlier batch that was not the
\* nominal one
C22_Witness ==
    /\ currentPartIndex = TotalParts
    /\ status = COMPLETED
    /\ odd = 1
    /\ event = Event("generateNextPart", "ok")

\* a part-generation call is pending
PartCallInFlight == \E i \in DOMAIN calls : calls[i].kind = "part"

\* C23: isGenerating is set exactly when the session is Generating, which is
\* exactly when a part-generation call is in flight
C23_FlagMeansGenerating ==
    /\ isGenerating <=> status = GENERATING
    /\ status = GENERATING <=> PartCallInFlight
\* the call for the last part is in flight
C23_Witness ==
    /\ isGenerating
    /\ PartCallInFlight
    /\ currentPartIndex = TotalParts - 1
    /\ event = Event("generateNextPart", "started")

\* the questions shown under part p and exported by the per-part download:
\* mcqs.filter((_, i) => Math.floor(i / 100) === p)
PartQuestions(p) == QuestionsToExport(Some(p))

\* C24: for every part p, the questions selected by position for part p are the
\* accumulated questions stamped for part p (id "part-p-...", name of part p),
\* in their order
C24_SelectionByPosition ==
    \A p \in 0 .. TotalParts - 1 :
        /\ PartQuestions(p) = SelectSeq(mcqs, LAMBDA m : m.id[2] = p)
        /\ \A j \in DOMAIN PartQuestions(p) :
             PartQuestions(p)[j].partName = Get(analysis).parts[p + 1].name

\* C25: once the session is Completed, an invocation of startAnalysis or of
\* generateNextPart issues no call, and no step changes the status, the
\* accumulated questions, currentPartIndex or the analysis
C25_CompletedIsTerminal ==
    [][status = COMPLETED
         => /\ (\E op \in StageOps : Invoked(op)) => event'.result = "noop"
            /\ UNCHANGED <<status, mcqs, currentPartIndex, analysis, calls>>]_vars
\* the session is Completed and the user has gone for the analyze button
C25_Witness ==
    /\ status = COMPLETED
    /\ calls = <<>>
    /\ event = Event("startAnalysis", "noop")

\* C26: from ReadyToGenerate on an analysis is stored; every part-generation
\* call is made with an analysis and a part index within 0..3, which for an
\* analysis of four parts is the index of one of its parts
C26_PartCallsInRange ==
    /\ status \in {READY_TO_GENERATE, GENERATING, COMPLETED} => IsSome(analysis)
    /\ \A i \in DOMAIN calls :
         calls[i].kind = "part"
           => /\ IsSome(calls[i].analysis)
              /\ calls[i].partIndex \in 0 .. TotalParts - 1
              /\ Len(Get(calls[i].analysis).parts) = TotalParts
                   => HasPart(Get(calls[i].analysis), calls[i].partIndex)
\* the call for the last part of a four-part analysis is in flight again after
\* a failure
C26_Witness ==
    /\ status = GENERATING
    /\ Len(calls) = 1
    /\ calls[1].kind = "part"
    /\ calls[1].partIndex = TotalParts - 1
    /\ Len(Get(calls[1].analysis).parts) = TotalParts
    /\ IsSome(lastFail)

====
